---- MODULE Spec2Model ----
(***************************************************************************)
(* Women's Safety Alert API (src/main.py, src/schemas.py).                 *)
(*                                                                         *)
(* The state is the document store (collections "user", "contact" and      *)
(* "alert"), the module-level handle db, the last response of the          *)
(* handlers that are modelled as one step, and the position and locals of  *)
(* the cancel_alert requests in flight (cancel_alert is modelled one store *)
(* call per step, so that two requests can interleave).                    *)
(*                                                                         *)
(* Optional[T] is modelled as a sequence: None is <<>>, a value v is <<v>>.*)
(* An identifier string is a record [form, oid]: form says how the 24      *)
(* characters are written ("lower"/"upper" hex digits, or a malformed      *)
(* string), oid which ObjectId the hex digits denote.                      *)
(***************************************************************************)
EXTENDS Integers, Sequences, FiniteSets, TLC

\* The requests to cancel_alert that can be in flight at once.
Workers == {"w1", "w2"}

\* ------------------------------------------------------- Optional values
None == <<>>
Some(x) == <<x>>

\* Python truthiness of an Optional[str]: None and "" are falsy.
Truthy(o) == o # None /\ o[1] # ""

\* `a or b` for an Optional[str] a and a str b.
PyOr(a, b) == IF Truthy(a) THEN a[1] ELSE b

\* dict.get(key, default)
DictGet(d, k, default) == IF k \in DOMAIN d THEN d[k] ELSE default

\* --------------------------------------------------------- identifiers
\* An ObjectId is [coll, k]: the k-th id the store generated for a
\* collection (ids are unique across collections).  An identifier string
\* is [form, oid]: how its characters are written, and the bytes they denote.
HexForms == {"lower", "upper"}
BadForms == {"nonhex", "badlen"}
NoOid == [coll |-> "none", k |-> 0]

\* bson.ObjectId(id_str) accepts exactly 24 hex digits, in either case.
IsValidObjectId(id_str) == id_str.form \in HexForms

\* ObjectId(id_str): the 12 bytes, whatever the case of the digits.
ObjectId(id_str) == id_str.oid

\* str(ObjectId): 24 lower-case hex digits.
Str(oid) == [form |-> "lower", oid |-> oid]

\* Variant of ensure_objectid: no string is refused.
ensure_objectid_NoCheck(id_str) == Some(ObjectId(id_str))

\* ensure_objectid: Some(ObjectId), or None for HTTPException(400).
ensure_objectid(id_str) ==
    IF IsValidObjectId(id_str) THEN Some(ObjectId(id_str)) ELSE None

\* ------------------------------------------------------------- schemas
DefaultMessage ==
    "I need help. This is an emergency. Please check my location and contact me immediately."

\* The user document of a RegisterUserRequest: default_message takes the
\* schema default when the request leaves it unset.
UserModel(p) ==
    [name |-> p.name, phone |-> p.phone, email |-> p.email,
     default_message |-> IF p.default_message = None THEN DefaultMessage
                         ELSE p.default_message[1],
     pin |-> p.pin, contacts |-> p.contacts]

\* Variant of ContactDoc: the contact is stored as submitted, its user_id
\* not replaced (`c.model_dump()` alone).
ContactDoc_AsSubmitted(c, user_id) == c

\* {**c.model_dump(), "user_id": user_id}
ContactDoc(c, user_id) == [c EXCEPT !.user_id = user_id]

VARIABLES db, users, contacts, alerts, resp, regLog,
          cpc, creq, calert, cresp

vars == <<db, users, contacts, alerts, resp, regLog,
          cpc, creq, calert, cresp>>

store == <<users, contacts, alerts>>
cancelVars == <<cpc, creq, calert, cresp>>

\* ------------------------------------------------------ store adapter
\* The documents of a collection, each with its _id.
Docs(coll) == {("_id" :> i) @@ coll[i] : i \in DOMAIN coll}

\* get_documents(collection, {key: value})
get_documents(coll, key, value) == {d \in Docs(coll) : d[key] = value}

\* The id create_document gives the next record of a collection.
NewId(name, coll) == [coll |-> name, k |-> Cardinality(DOMAIN coll) + 1]

\* create_document: the collection with the record under a fresh id.
create_document(name, coll, doc) == (NewId(name, coll) :> doc) @@ coll

\* Variant of update_one: update_many with an empty filter.
update_one_EveryDocument(coll, oid, newStatus) ==
    [i \in DOMAIN coll |-> [coll[i] EXCEPT !.status = newStatus]]

\* db[...].update_one({"_id": oid}, {"$set": {"status": newStatus}})
update_one(coll, oid, newStatus) ==
    [i \in DOMAIN coll |->
        IF i = oid THEN [coll[i] EXCEPT !.status = newStatus] ELSE coll[i]]

\* c["_id"] = str(c["_id"]) for each listed document
CoerceIds(docs) == {[d EXCEPT !._id = Str(d._id)] : d \in docs}

\* ---------------------------------------------------------- responses
\* code: the HTTP status; ops: the store calls the handler made; id, docs,
\* status: the body.
Response(op, code, ops) ==
    [op |-> op, code |-> code, ops |-> ops,
     id |-> None, docs |-> {}, status |-> ""]

NoResp == Response("none", 200, 0)

NoRequest == [alert_id |-> [form |-> "badlen", oid |-> NoOid], pin |-> None]

Init ==
    /\ db \in BOOLEAN
    /\ users = <<>>
    /\ contacts = <<>>
    /\ alerts = <<>>
    /\ resp = NoResp
    /\ regLog = <<>>
    /\ cpc = [w \in Workers |-> "idle"]
    /\ creq = [w \in Workers |-> NoRequest]
    /\ calert = [w \in Workers |-> None]
    /\ cresp = [w \in Workers |-> NoResp]

\* ------------------------------------------------------------ handlers
\* The contacts the loop of register_user walks: `if payload.contacts:` skips
\* None and the empty list.
ContactsToInsert(payload) ==
    IF payload.contacts = None THEN <<>> ELSE payload.contacts[1]

\* Variant of InsertContacts: all or nothing, the contacts are stored only
\* when every insert succeeds (a transaction around the loop).
InsertContacts_AllOrNothing(coll, cs, user_id, count) ==
    LET n == Cardinality(DOMAIN coll)
    IN  IF count < Len(cs) THEN coll
        ELSE [i \in {[coll |-> "contact", k |-> n + j] : j \in 1..count} |->
                 [cs[i.k - n] EXCEPT !.user_id = user_id]] @@ coll

\* The loop of register_user: create_document("contact", ...) for the first
\* `count` contacts of cs.
RECURSIVE InsertContacts(_, _, _, _)
InsertContacts(coll, cs, user_id, count) ==
    IF count = 0 THEN coll
    ELSE InsertContacts(
           create_document("contact", coll, ContactDoc(Head(cs), user_id)),
           Tail(cs), user_id, count - 1)

\* POST /api/register.  failAt names the create_document call that raises
\* (1 is the user insert, k+1 the insert of the k-th contact, 0 none); with
\* db None the first call raises.  regLog keeps, for each user document,
\* the contacts its registration asked for and how the request ended.
register_user(payload, failAt) ==
    LET cs == ContactsToInsert(payload)
        f == IF db THEN failAt ELSE 1
        user_id == Str(NewId("user", users))
        stored == IF f = 0 THEN Len(cs) ELSE f - 2
    IN  /\ f <= Len(cs) + 1
        /\ IF f = 1
           THEN /\ resp' = Response("register_user", 500, 1)
                /\ UNCHANGED <<users, contacts, regLog>>
           ELSE /\ users' = create_document("user", users, UserModel(payload))
                /\ contacts' = InsertContacts(contacts, cs, user_id, stored)
                /\ resp' = IF f = 0
                           THEN [Response("register_user", 200, 1 + Len(cs))
                                    EXCEPT !.id = Some(user_id)]
                           ELSE Response("register_user", 500, f)
                /\ regLog' = (NewId("user", users) :>
                                [contacts |-> cs,
                                 code |-> IF f = 0 THEN 200 ELSE 500])
                              @@ regLog
        /\ UNCHANGED <<db, alerts, cancelVars>>

\* GET /api/contacts/{user_id}
list_contacts(user_id) ==
    /\ resp' =
         IF ensure_objectid(user_id) = None
         THEN Response("list_contacts", 400, 0)
         ELSE IF ~db
         THEN Response("list_contacts", 500, 1)
         ELSE [Response("list_contacts", 200, 1) EXCEPT
                 !.docs = CoerceIds(get_documents(contacts, "user_id", user_id))]
    /\ UNCHANGED <<db, store, regLog, cancelVars>>

\* GET /api/alerts/{user_id}
list_alerts(user_id) ==
    /\ resp' =
         IF ensure_objectid(user_id) = None
         THEN Response("list_alerts", 400, 0)
         ELSE IF ~db
         THEN Response("list_alerts", 500, 1)
         ELSE [Response("list_alerts", 200, 1) EXCEPT
                 !.docs = CoerceIds(get_documents(alerts, "user_id", user_id))]
    /\ UNCHANGED <<db, store, regLog, cancelVars>>

\* Variant of AlertMessage: the operands of `or` swapped, the user's
\* default wins over the request's message.
AlertMessage_DefaultFirst(payload, user) ==
    PyOr(Some(DictGet(user, "default_message", DefaultMessage)),
         IF payload.message = None THEN "" ELSE payload.message[1])

\* message = payload.message or user.get("default_message", <fallback>)
AlertMessage(payload, user) ==
    PyOr(payload.message, DictGet(user, "default_message", DefaultMessage))

\* alert_data of create_alert
AlertData(payload, user) ==
    [user_id |-> payload.user_id,
     message |-> AlertMessage(payload, user),
     location |-> payload.location,
     status |-> "active",
     share_url |-> None]

\* `if not users: raise HTTPException(404)` of create_alert
UserMissing(found) == found = {}

\* POST /api/alerts
create_alert(payload) ==
    LET oid == ensure_objectid(payload.user_id)
        found == get_documents(users, "_id", oid[1])
        user == CHOOSE u \in found : TRUE
    IN  /\ IF oid = None
           THEN /\ resp' = Response("create_alert", 400, 0)
                /\ UNCHANGED alerts
           ELSE IF ~db
           THEN /\ resp' = Response("create_alert", 500, 1)
                /\ UNCHANGED alerts
           ELSE IF UserMissing(found)
           THEN /\ resp' = Response("create_alert", 404, 1)
                /\ UNCHANGED alerts
           ELSE /\ alerts' = create_document("alert", alerts,
                                             AlertData(payload, user))
                /\ resp' = [Response("create_alert", 200, 2) EXCEPT
                              !.id = Some(Str(NewId("alert", alerts))),
                              !.status = "active"]
        /\ UNCHANGED <<db, users, contacts, regLog, cancelVars>>

\* Variant of PinRejected: an omitted or empty request pin is let through
\* (`payload.pin and payload.pin != user.get("pin")`).
PinRejected_OmittedPasses(user, pin) ==
    /\ user # None
    /\ Truthy(DictGet(user[1], "pin", None))
    /\ Truthy(pin)
    /\ pin # DictGet(user[1], "pin", None)

\* Variant of PinRejected: the pin counts as set when it is not None
\* (`user.get("pin") is not None`), so an empty pin gates too.
PinRejected_EmptyPinGates(user, pin) ==
    /\ user # None
    /\ DictGet(user[1], "pin", None) # None
    /\ (~Truthy(pin) \/ pin # DictGet(user[1], "pin", None))

\* The PIN rule of cancel_alert: `user and user.get("pin")` and then
\* `not payload.pin or payload.pin != user.get("pin")`; user is None or Some.
PinRejected(user, pin) ==
    /\ user # None
    /\ Truthy(DictGet(user[1], "pin", None))
    /\ (~Truthy(pin) \/ pin # DictGet(user[1], "pin", None))

\* A cancel_alert request ends: its response is kept, its request body is
\* gone.
CancelDone(w, alert_id, code, ops, status) ==
    /\ cpc' = [cpc EXCEPT ![w] = "done"]
    /\ creq' = [creq EXCEPT ![w] = NoRequest]
    /\ cresp' = [cresp EXCEPT ![w] =
                   [Response("cancel_alert", code, ops)
                      EXCEPT !.id = IF code = 200 THEN Some(alert_id) ELSE None,
                             !.status = status]]

\* POST /api/alerts/cancel, up to the first store read: ensure_objectid and
\* get_documents("alert", ...).
cancel_alert_load(w, payload) ==
    LET oid == ensure_objectid(payload.alert_id)
        found == get_documents(alerts, "_id", oid[1])
    IN  /\ cpc[w] \in {"idle", "done"}
        /\ IF oid = None
           THEN CancelDone(w, payload.alert_id, 400, 0, "")
                  /\ calert' = [calert EXCEPT ![w] = None]
           ELSE IF ~db
           THEN CancelDone(w, payload.alert_id, 500, 1, "")
                  /\ calert' = [calert EXCEPT ![w] = None]
           ELSE IF found = {}
           THEN CancelDone(w, payload.alert_id, 404, 1, "")
                  /\ calert' = [calert EXCEPT ![w] = None]
           ELSE /\ calert' = [calert EXCEPT ![w] = Some(CHOOSE a \in found : TRUE)]
                /\ creq' = [creq EXCEPT ![w] = payload]
                /\ cpc' = [cpc EXCEPT ![w] = "loaded"]
                /\ cresp' = [cresp EXCEPT ![w] = NoResp]
        /\ UNCHANGED <<db, store, resp, regLog>>

\* Variant of FindOwner: the owner is looked up by the stored string, which
\* matches only the spelling str(_id) gives.
FindOwner_ByString(coll, oid, alert) ==
    {d \in Docs(coll) : Str(d._id) = alert.user_id}

\* users = get_documents("user", {"_id": ensure_objectid(alert.get("user_id"))})
FindOwner(coll, oid, alert) == get_documents(coll, "_id", oid)

\* cancel_alert, the second store read and the PIN check.
cancel_alert_authorize(w) ==
    LET alert == calert[w][1]
        oid == ensure_objectid(alert.user_id)
        found == FindOwner(users, oid[1], alert)
        user == IF found # {} THEN Some(CHOOSE u \in found : TRUE) ELSE None
    IN  /\ cpc[w] = "loaded"
        /\ IF oid = None
           THEN CancelDone(w, creq[w].alert_id, 400, 1, "")
           ELSE IF PinRejected(user, creq[w].pin)
           THEN CancelDone(w, creq[w].alert_id, 403, 2, "")
           ELSE /\ cpc' = [cpc EXCEPT ![w] = "authorized"]
                /\ UNCHANGED <<creq, cresp>>
        /\ UNCHANGED <<db, store, resp, regLog, calert>>

\* Variant of CancelWrite: the status is toggled, so a second cancellation
\* re-activates the alert.
CancelWrite_Toggle(coll, oid) ==
    update_one(coll, oid,
               IF coll[oid].status = "active" THEN "canceled" ELSE "active")

\* The write of cancel_alert: {"$set": {"status": "canceled"}} on the alert
\* the request names, whatever its status is by now.
CancelWrite(coll, oid) == update_one(coll, oid, "canceled")

\* Variant of CancelResult: compare-and-swap on the status; a request that
\* finds the alert no longer active is answered 409.
CancelResult_CompareAndSwap(coll, oid) ==
    IF coll[oid].status = "active"
    THEN [alerts |-> CancelWrite(coll, oid), code |-> 200, status |-> "canceled"]
    ELSE [alerts |-> coll, code |-> 409, status |-> ""]

\* The update of cancel_alert and the response that follows it: no look at
\* the current status, no look at the update's result.
CancelResult(coll, oid) ==
    [alerts |-> CancelWrite(coll, oid), code |-> 200, status |-> "canceled"]

\* cancel_alert, the `db is None` check, the update and the response.
cancel_alert_update(w) ==
    /\ cpc[w] = "authorized"
    /\ IF ~db
       THEN CancelDone(w, creq[w].alert_id, 500, 2, "") /\ UNCHANGED alerts
       ELSE LET r == CancelResult(alerts, ensure_objectid(creq[w].alert_id)[1])
            IN  /\ alerts' = r.alerts
                /\ CancelDone(w, creq[w].alert_id, r.code, 3, r.status)
    /\ UNCHANGED <<db, users, contacts, resp, regLog, calert>>

\* -------------------------------------------------------------- inputs
\* Identifier strings a client may send: of every stored document and of
\* the next document of each collection, in lower and in upper case, and two
\* malformed strings.
KnownOids ==
    {[coll |-> "user", k |-> i] : i \in 1..(Cardinality(DOMAIN users) + 1)}
      \cup {[coll |-> "alert", k |-> i] : i \in 1..(Cardinality(DOMAIN alerts) + 1)}

Malformed == {[form |-> f, oid |-> NoOid] : f \in BadForms}

IdInputs ==
    {[form |-> f, oid |-> o] : f \in HexForms, o \in KnownOids} \cup Malformed

\* The malformed strings, and the lower-case ids of one collection: of its
\* documents and of its next one.
IdsOf(name) ==
    {id \in IdInputs : id.form \in BadForms
                          \/ (id.form = "lower" /\ id.oid.coll = name)}

\* The ids of the documents of a collection, as str() spells them.
StoredIds(coll) == {Str(o) : o \in DOMAIN coll}

Contact1 == [user_id |-> [form |-> "nonhex", oid |-> NoOid], name |-> "c1",
             phone |-> None, email |-> None]
Contact2 == [user_id |-> [form |-> "nonhex", oid |-> NoOid], name |-> "c2",
             phone |-> Some("777"), email |-> None]

UserPayloads(defaults, pins, contactLists) ==
    [name : {"A"}, phone : {"555"}, email : {None},
     default_message : defaults, pin : pins, contacts : contactLists]

Pins == {None, Some(""), Some("1234")}

Location1 == [lat |-> 45, lng |-> -122, accuracy |-> Some(5)]

AlertPayloads(ids, messages, locations) ==
    [user_id : ids, message : messages, location : locations]

RequestPins == {None, Some(""), Some("1234"), Some("0000")}

CancelPayloads(ids, pins) == [alert_id : ids, pin : pins]

\* ------------------------------------------------------ specifications
\* Each specification registers users and creates alerts until the store
\* holds so many.
BelowUsers(max) == Cardinality(DOMAIN users) < max
BelowAlerts(max) == Cardinality(DOMAIN alerts) < max

\* The alert lifecycle: a user with any kind of pin, alerts, and one
\* cancel_alert request at a time, with every kind of request pin.
MaxUsers == 1
MaxAlerts == 2

LifecycleUsers == UserPayloads({None}, Pins, {Some(<<Contact1>>)})
LifecycleAlerts ==
    AlertPayloads(IdsOf("user") \ Malformed, {None}, {Some(Location1)})
LifecycleCancels ==
    CancelPayloads(StoredIds(alerts), RequestPins)
      \cup CancelPayloads(IdsOf("alert") \ StoredIds(alerts), {None})

Next ==
    \/ BelowUsers(MaxUsers) /\ \E p \in LifecycleUsers : register_user(p, 0)
    \/ BelowAlerts(MaxAlerts) /\ \E p \in LifecycleAlerts : create_alert(p)
    \/ \E p \in LifecycleCancels : cancel_alert_load("w1", p)
    \/ cancel_alert_authorize("w1")
    \/ cancel_alert_update("w1")

Spec == Init /\ [][Next]_vars

\* Concurrent cancellation: cancel_alert requests of two workers interleave
\* store call by store call, with each other and with the creation of users
\* and alerts.
RaceUsers == UserPayloads({None}, {None, Some("1234")}, {None})
RaceAlerts == AlertPayloads(IdsOf("user"), {None}, {None})
RaceCancels == CancelPayloads(IdsOf("alert"), {None, Some("1234")})

NextRace ==
    \/ BelowUsers(MaxUsers) /\ \E p \in RaceUsers : register_user(p, 0)
    \/ BelowAlerts(MaxAlerts) /\ \E p \in RaceAlerts : create_alert(p)
    \/ \E w \in Workers :
          \/ \E p \in RaceCancels : cancel_alert_load(w, p)
          \/ cancel_alert_authorize(w)
          \/ cancel_alert_update(w)

SpecRace == Init /\ [][NextRace]_vars

\* Alert creation: users with and without a default_message of their own,
\* requests with a message, with an empty one and with none.
MaxCreateUsers == 2
MaxCreateAlerts == 2

CreateUsers == UserPayloads({None, Some(""), Some("custom")}, {None}, {None})
CreatePayloads ==
    AlertPayloads(IdsOf("user"), {None, Some(""), Some("help")},
                  {None, Some(Location1)})

NextCreate ==
    \/ BelowUsers(MaxCreateUsers) /\ \E p \in CreateUsers : register_user(p, 0)
    \/ BelowAlerts(MaxCreateAlerts) /\ \E p \in CreatePayloads : create_alert(p)

SpecCreate == Init /\ [][NextCreate]_vars

\* Identifiers: every handler that takes one, with every spelling of the
\* stored ids, ids of no document, and malformed strings.
MaxApiUsers == 2
MaxApiAlerts == 1

ApiUsers == UserPayloads({None}, {Some("1234")}, {Some(<<Contact1>>)})
ApiAlerts == AlertPayloads(IdInputs, {None}, {None})
ApiCancels == CancelPayloads(IdInputs, {None, Some("1234")})

NextApi ==
    \/ BelowUsers(MaxApiUsers) /\ \E p \in ApiUsers : register_user(p, 0)
    \/ \E id \in IdInputs : list_contacts(id)
    \/ \E id \in IdInputs : list_alerts(id)
    \/ BelowAlerts(MaxApiAlerts) /\ \E p \in ApiAlerts : create_alert(p)
    \/ \E p \in ApiCancels : cancel_alert_load("w1", p)
    \/ cancel_alert_authorize("w1")
    \/ cancel_alert_update("w1")

SpecApi == Init /\ [][NextApi]_vars

\* Registration: users with lists of up to MaxContacts contacts, any one of
\* the inserts failing, and the listing of contacts.  A list holds some
\* copies of Contact1 followed by some of Contact2: lists with a contact
\* twice, lists with both, and every length up to the bound.
MaxRegUsers == 2
MaxContacts == 2

ContactList(i, j) ==
    [k \in 1..(i + j) |-> IF k <= i THEN Contact1 ELSE Contact2]

ContactLists ==
    {None} \cup {Some(ContactList(ij[1], ij[2])) :
                   ij \in {x \in (0..MaxContacts) \X (0..MaxContacts) :
                             x[1] + x[2] <= MaxContacts}}

RegPayloads == UserPayloads({None}, {None}, ContactLists)

NextReg ==
    \/ /\ BelowUsers(MaxRegUsers)
       /\ \E p \in RegPayloads : \E failAt \in 0..(Len(ContactsToInsert(p)) + 1) :
              register_user(p, failAt)
    \/ \E id \in IdInputs : list_contacts(id)

SpecReg == Init /\ [][NextReg]_vars

\* ------------------------------------------------------------- claims
\* The request of worker w takes a step.
Steps(w) == cpc'[w] # cpc[w] \/ cresp'[w] # cresp[w]

\* The alert a request in flight names, and the pin of that alert's owner
\* (None when the owner has none, or is not stored).
NamedAlert(w) == ObjectId(creq[w].alert_id)
OwnerPin(w) ==
    LET o == ObjectId(calert[w][1].user_id)
    IN  IF o \in DOMAIN users THEN users[o].pin ELSE None
InFlight(w) == cpc[w] \in {"loaded", "authorized"}

\* The request of worker w goes on to success: from the reads to the write,
\* and from the write to a 200 response with the named alert canceled.
Succeeds(w) ==
    /\ cpc[w] = "loaded" =>
         cpc'[w] = "authorized" /\ alerts' = alerts
    /\ cpc[w] = "authorized" =>
         /\ cpc'[w] = "done"
         /\ cresp'[w].code = 200
         /\ cresp'[w].status = "canceled"
         /\ alerts'[NamedAlert(w)].status = "canceled"

\* A request naming a stored alert, with any pin, is not turned away by the
\* first read.
FindsAlert(w) ==
    (Steps(w) /\ cpc[w] \in {"idle", "done"}) =>
        \A p \in CancelPayloads(StoredIds(alerts), RequestPins) :
            cancel_alert_load(w, p) => cpc'[w] = "loaded" /\ alerts' = alerts

\* C1: when the owner of the alert has a non-empty pin, a cancel_alert
\* request whose pin is omitted, empty or different ends with 403 and no step
\* of it changes the alert; a request with the owner's pin ends with 200 and
\* the alert's status "canceled".
C1_PinGate ==
    [][\A w \in Workers :
         /\ FindsAlert(w)
         /\ (Steps(w) /\ InFlight(w) /\ Truthy(OwnerPin(w))) =>
              IF creq[w].pin = OwnerPin(w)
              THEN Succeeds(w)
              ELSE /\ cpc'[w] = "done"
                   /\ cresp'[w].code = 403
                   /\ alerts' = alerts]_vars

\* C1 witness: a request was refused with 403 and the alert it read is
\* still active.
C1_Witness ==
    \E w \in Workers :
        /\ cpc[w] = "done"
        /\ cresp[w].code = 403
        /\ calert[w] # None
        /\ alerts[calert[w][1]._id].status = "active"

\* C2: when the owner of the alert has no pin (None or ""), every
\* cancel_alert request for the alert, with any pin or none, ends with 200
\* and the alert's status "canceled".
C2_NoPinAlwaysCancels ==
    [][\A w \in Workers :
         /\ FindsAlert(w)
         /\ (Steps(w) /\ InFlight(w) /\ ~Truthy(OwnerPin(w))) => Succeeds(w)]_vars

\* C2 witness: a request succeeded on an alert whose owner's pin is the
\* empty string.
C2_Witness ==
    \E w \in Workers :
        /\ cpc[w] = "done"
        /\ cresp[w].code = 200
        /\ users[ObjectId(calert[w][1].user_id)].pin = Some("")
        /\ alerts[calert[w][1]._id].status = "canceled"

\* Worker w answers 200 to the request naming alert a.
CancelSucceeds(w, a) ==
    /\ cpc[w] = "authorized"
    /\ cpc'[w] = "done"
    /\ cresp'[w].code = 200
    /\ NamedAlert(w) = a

\* C6: an alert is created "active"; its status changes only from "active"
\* to "canceled" and only in the step in which a cancel_alert request for it
\* succeeds; a canceled alert stays canceled, cancelling it again succeeds;
\* no alert is ever "resolved" and none is deleted.
C6_StatusPath ==
    [][/\ \A a \in DOMAIN alerts :
            /\ a \in DOMAIN alerts'
            /\ alerts'[a].status # alerts[a].status =>
                 /\ alerts[a].status = "active"
                 /\ alerts'[a].status = "canceled"
                 /\ \E w \in Workers : CancelSucceeds(w, a)
            /\ alerts[a].status = "canceled" => alerts'[a].status = "canceled"
       /\ \A a \in DOMAIN alerts' \ DOMAIN alerts : alerts'[a].status = "active"
       /\ \A a \in DOMAIN alerts' : alerts'[a].status \in {"active", "canceled"}
       /\ \A w \in Workers :
            (Steps(w) /\ cpc[w] = "authorized") => CancelSucceeds(w, NamedAlert(w))
      ]_vars

\* C6 witness: a request succeeded on an alert that it read as already
\* canceled.
C6_Witness ==
    \E w \in Workers :
        /\ cpc[w] = "done"
        /\ cresp[w].code = 200
        /\ calert[w][1].status = "canceled"
        /\ alerts[calert[w][1]._id].status = "canceled"

\* C7: a successful cancel_alert changes the status field of the alert it
\* names and nothing else: not that alert's other fields, no other alert, no
\* user, no contact; a step of a request that is rejected, or has not
\* written yet, changes nothing in the store.
C7_CancelFrame ==
    [][\A w \in Workers :
         Steps(w) =>
           /\ users' = users
           /\ contacts' = contacts
           /\ DOMAIN alerts' = DOMAIN alerts
           /\ IF cpc'[w] = "done" /\ cresp'[w].code = 200
              THEN \A a \in DOMAIN alerts :
                     /\ alerts'[a].user_id = alerts[a].user_id
                     /\ alerts'[a].message = alerts[a].message
                     /\ alerts'[a].location = alerts[a].location
                     /\ alerts'[a].share_url = alerts[a].share_url
                     /\ a # NamedAlert(w) => alerts'[a] = alerts[a]
              ELSE alerts' = alerts]_vars

\* C7 witness: a request succeeded while another alert is stored and still
\* active and a contact is stored, and the canceled alert kept its location.
C7_Witness ==
    \E w \in Workers :
        /\ cpc[w] = "done"
        /\ cresp[w].code = 200
        /\ alerts[calert[w][1]._id].status = "canceled"
        /\ alerts[calert[w][1]._id].location = Some(Location1)
        /\ \E b \in DOMAIN alerts : alerts[b].status = "active"
        /\ DOMAIN contacts # {}

\* The request of worker w is authorized: the owner of the alert has no pin,
\* or the request carries it.
Authorized(w) == ~Truthy(OwnerPin(w)) \/ creq[w].pin = OwnerPin(w)

\* Another request for the same alert is under way, or has been answered 200.
Racing(w) ==
    \E v \in Workers \ {w} :
        \/ InFlight(v) /\ NamedAlert(v) = NamedAlert(w)
        \/ cpc[v] = "done" /\ cresp[v].id = Some(creq[w].alert_id)

\* C8: two authorized cancel_alert requests for the same alert, their store
\* calls interleaved in any order: each step of each goes on to success,
\* both are answered 200 with status "canceled", and whenever a request has
\* been answered 200 the alert it names is stored as canceled.
C8_ConcurrentCancel ==
    [][/\ \A w \in Workers :
            (Steps(w) /\ InFlight(w) /\ Authorized(w) /\ Racing(w)) => Succeeds(w)
       /\ \A w \in Workers :
            (cpc'[w] = "done" /\ cresp'[w].code = 200) =>
                alerts'[ObjectId(cresp'[w].id[1])].status = "canceled"
      ]_vars

\* C8 witness: both requests were answered 200 for the same alert, and both
\* had read it as active: neither had written when the other read.
C8_Witness ==
    /\ \A w \in Workers :
         /\ cpc[w] = "done"
         /\ cresp[w].code = 200
         /\ calert[w][1].status = "active"
    /\ \A v, w \in Workers : calert[v][1]._id = calert[w][1]._id
    /\ \A w \in Workers : alerts[calert[w][1]._id].status = "canceled"

\* The fields of a contact that a client submits and reads back.
ContactFields(c) == [name |-> c.name, phone |-> c.phone, email |-> c.email]

\* C3: a registration with every insert succeeding answers 200 with the id
\* of a new user document; from then on list_contacts with that id returns
\* exactly the contacts of that registration (the same contacts, as many
\* documents as were submitted), each with user_id the new user's id,
\* whatever other registrations there are.
C3_RegisterThenList ==
    [][/\ \A p \in RegPayloads :
            (db /\ resp'.op = "register_user" /\ register_user(p, 0)) =>
               /\ resp'.code = 200
               /\ resp'.id # None
               /\ ObjectId(resp'.id[1]) \in DOMAIN users' \ DOMAIN users
       /\ \A u \in DOMAIN regLog :
            (regLog[u].code = 200 /\ resp'.op = "list_contacts"
               /\ list_contacts(Str(u))) =>
               /\ resp'.code = 200
               /\ {ContactFields(d) : d \in resp'.docs}
                    = {ContactFields(regLog[u].contacts[k]) :
                         k \in 1..Len(regLog[u].contacts)}
               /\ Cardinality(resp'.docs) = Len(regLog[u].contacts)
               /\ \A d \in resp'.docs : d.user_id = Str(u)
      ]_vars

\* C3 witness: two users are registered, each with contacts, and
\* list_contacts has returned the two contacts of the first.
C3_Witness ==
    /\ Cardinality(DOMAIN users) = 2
    /\ \A u \in DOMAIN regLog : regLog[u].code = 200 /\ Len(regLog[u].contacts) = 2
    /\ resp.op = "list_contacts"
    /\ resp.code = 200
    /\ {ContactFields(d) : d \in resp.docs}
         = {ContactFields(Contact1), ContactFields(Contact2)}
    /\ \A d \in resp.docs : d.user_id = Str([coll |-> "user", k |-> 1])

\* C9: when the user insert succeeds and the insert of the k-th contact
\* fails, the request fails (500), the user document and the k-1 contacts
\* before the failure are stored, and list_contacts for that user returns
\* fewer contacts than were requested, all of them requested ones.
C9_PartialRegistration ==
    [][/\ \A p \in RegPayloads : \A k \in 1..Len(ContactsToInsert(p)) :
            (db /\ resp'.op = "register_user" /\ register_user(p, k + 1)) =>
               /\ resp'.code = 500
               /\ Cardinality(DOMAIN users') = Cardinality(DOMAIN users) + 1
               /\ \A u \in DOMAIN users : users'[u] = users[u]
               /\ \A c \in DOMAIN contacts : contacts'[c] = contacts[c]
               /\ Cardinality(DOMAIN contacts') = Cardinality(DOMAIN contacts) + k - 1
               /\ \A c \in DOMAIN contacts' \ DOMAIN contacts :
                     ObjectId(contacts'[c].user_id) \in DOMAIN users' \ DOMAIN users
       /\ \A u \in DOMAIN regLog :
            (regLog[u].code = 500 /\ resp'.op = "list_contacts"
               /\ list_contacts(Str(u))) =>
               /\ u \in DOMAIN users
               /\ Cardinality(resp'.docs) < Len(regLog[u].contacts)
               /\ {ContactFields(d) : d \in resp'.docs}
                    \subseteq {ContactFields(regLog[u].contacts[k]) :
                                 k \in 1..Len(regLog[u].contacts)}
      ]_vars

\* C9 witness: a registration of two contacts failed at the second; the
\* user and the first contact are stored and list_contacts returned that one.
C9_Witness ==
    \E u \in DOMAIN regLog :
        /\ regLog[u].code = 500
        /\ Len(regLog[u].contacts) = 2
        /\ u \in DOMAIN users
        /\ resp.op = "list_contacts"
        /\ Cardinality(resp.docs) = 1
        /\ \A d \in resp.docs : d.user_id = Str(u)

\* C4: with a malformed identifier, list_contacts, list_alerts, create_alert
\* and cancel_alert each answer 400 having made no store call, whether or
\* not the store is available, and the store is unchanged.
C4_MalformedIdRejected ==
    [][/\ resp' # resp =>
            /\ \A id \in Malformed :
                 /\ list_contacts(id) =>
                       resp'.code = 400 /\ resp'.ops = 0 /\ store' = store
                 /\ list_alerts(id) =>
                       resp'.code = 400 /\ resp'.ops = 0 /\ store' = store
            /\ \A p \in AlertPayloads(Malformed, {None}, {None}) :
                 create_alert(p) =>
                       resp'.code = 400 /\ resp'.ops = 0 /\ store' = store
       /\ \A w \in Workers :
            Steps(w) =>
               \A p \in CancelPayloads(Malformed, {None, Some("1234")}) :
                  cancel_alert_load(w, p) =>
                     /\ cpc'[w] = "done"
                     /\ cresp'[w].code = 400
                     /\ cresp'[w].ops = 0
                     /\ store' = store
      ]_vars

\* C4 witness: with a user and an alert stored, cancel_alert has answered
\* 400 without a store call, and so has one of the other handlers.
C4_Witness ==
    /\ DOMAIN users # {}
    /\ DOMAIN alerts # {}
    /\ cpc["w1"] = "done"
    /\ cresp["w1"].code = 400
    /\ cresp["w1"].ops = 0
    /\ resp.op \in {"list_contacts", "list_alerts", "create_alert"}
    /\ resp.code = 400
    /\ resp.ops = 0

\* The alert a successful create_alert stored.
NewAlert == alerts'[ObjectId(resp'.id[1])]

\* C5 as claimed: the stored message is the request's message whenever the
\* request supplies one, and the user's default_message only when it omits it.
C5_AsClaimed ==
    [][\A p \in CreatePayloads :
         (resp'.op = "create_alert" /\ resp'.code = 200 /\ create_alert(p)) =>
            NewAlert.message =
               IF p.message # None THEN p.message[1]
               ELSE users[ObjectId(p.user_id)].default_message]_vars

\* C5, amended: the stored message is the request's message when the
\* request supplies a non-empty one; when the request omits it or supplies
\* the empty string it is the user's stored default_message, which is the
\* fixed fallback string when the registration gave none; the alert is
\* stored with status "active" and share_url unset.
C5_Message ==
    [][/\ \A p \in CreatePayloads :
            (resp'.op = "create_alert" /\ resp'.code = 200 /\ create_alert(p)) =>
               /\ NewAlert.message =
                    IF p.message # None /\ p.message[1] # "" THEN p.message[1]
                    ELSE users[ObjectId(p.user_id)].default_message
               /\ NewAlert.status = "active"
               /\ NewAlert.share_url = None
               /\ ObjectId(resp'.id[1]) \notin DOMAIN alerts
       /\ \A p \in {q \in CreateUsers : q.default_message = None} :
            (resp'.op = "register_user" /\ resp'.code = 200 /\ register_user(p, 0)) =>
               users'[ObjectId(resp'.id[1])].default_message = DefaultMessage
      ]_vars

\* C5 witness: alerts are stored with the request's message, with a user's
\* own default and with the fixed fallback string.
C5_Witness ==
    /\ \E a \in DOMAIN alerts :
          /\ alerts[a].message = DefaultMessage
          /\ alerts[a].status = "active"
          /\ alerts[a].share_url = None
    /\ \E a \in DOMAIN alerts :
          alerts[a].message \in {"custom", "help"}
    /\ resp.op = "create_alert"
    /\ resp.code = 200

\* C10: the user_id of every stored alert denotes a stored user; create_alert
\* with a well-formed id of no user answers 404 and stores nothing; no step
\* removes a user or changes an alert's user_id; so cancel_alert finds the
\* owner of the alert and, when the owner has a pin, never lets a request
\* without that pin through.
C10_AlertOwnerExists ==
    [][/\ \A a \in DOMAIN alerts' :
            /\ IsValidObjectId(alerts'[a].user_id)
            /\ ObjectId(alerts'[a].user_id) \in DOMAIN users'
       /\ (db /\ resp' # resp /\ resp'.op = "create_alert") =>
            \A p \in AlertPayloads({id \in IdInputs \ Malformed :
                                      ObjectId(id) \notin DOMAIN users},
                                   {None}, {None}) :
               create_alert(p) => resp'.code = 404 /\ alerts' = alerts
       /\ \A u \in DOMAIN users : u \in DOMAIN users' /\ users'[u] = users[u]
       /\ \A a \in DOMAIN alerts :
            a \in DOMAIN alerts' /\ alerts'[a].user_id = alerts[a].user_id
       /\ \A w \in Workers :
            (Steps(w) /\ cpc[w] = "loaded"
               /\ Truthy(users[ObjectId(calert[w][1].user_id)].pin)
               /\ creq[w].pin # users[ObjectId(calert[w][1].user_id)].pin) =>
                  cpc'[w] = "done" /\ cresp'[w].code = 403
      ]_vars

\* C10 witness: an alert is stored whose user_id is an upper-case spelling
\* of its owner's id, and a request for it without the owner's pin was
\* refused.
C10_Witness ==
    /\ \E a \in DOMAIN alerts : alerts[a].user_id.form = "upper"
    /\ cpc["w1"] = "done"
    /\ cresp["w1"].code = 403
    /\ calert["w1"] # None
    /\ calert["w1"][1].user_id.form = "upper"

====
